---------------------------- MODULE Spec2Model ----------------------------
(* A model of the colour-correction scripts: batch_correct.py (the batch   *)
(* driver and its helpers), the matrix file written by                     *)
(* get_ref_color_matrix.py, correct_from_proxy.py and                      *)
(* correct_from_other.py.  Strings are sequences of one-character strings, *)
(* so that lower(), endswith(), splitext() and list.sort() are computed,   *)
(* not assumed.                                                            *)
EXTENDS Integers, Sequences, FiniteSets, TLC

(***************************************************************************)
(* Bounds of the model.                                                    *)
(***************************************************************************)
\* largest number of entries of the input directory
MaxFiles == 3
\* largest number of rows (patches) of a colour matrix
MaxRows == 3

(***************************************************************************)
(* Strings.                                                                *)
(***************************************************************************)
\* the characters the model's names use, in ascending code-point order
Ascii == << ".", "3", "A", "E", "F", "G", "I", "N", "P", "R", "T", "W",
            "a", "b", "c", "d", "e", "f", "g", "i", "n", "p", "r", "s",
            "t", "v", "w", "x" >>

Ord(c) == CHOOSE i \in 1..Len(Ascii) : Ascii[i] = c

\* str.lower() on one character
LowerChar(c) ==
    CASE c = "A" -> "a" [] c = "E" -> "e" [] c = "F" -> "f" [] c = "G" -> "g"
      [] c = "I" -> "i" [] c = "N" -> "n" [] c = "P" -> "p" [] c = "R" -> "r"
      [] c = "T" -> "t" [] c = "W" -> "w" [] OTHER -> c

\* str.lower()
Lower(s) == [i \in 1..Len(s) |-> LowerChar(s[i])]

\* str.endswith(suffix)
EndsWith(s, suf) ==
    /\ Len(suf) <= Len(s)
    /\ SubSeq(s, Len(s) - Len(suf) + 1, Len(s)) = suf

\* s < t in Python's string order (lexicographic by code point)
StrLess(s, t) ==
    \E k \in 0..Len(s) :
        /\ k <= Len(t)
        /\ \A i \in 1..k : s[i] = t[i]
        /\ \/ k = Len(s) /\ k < Len(t)
           \/ k < Len(s) /\ k < Len(t) /\ Ord(s[k + 1]) < Ord(t[k + 1])

\* os.path.splitext(name)[0] for a name without directory separators: the
\* extension starts at the last dot that is not one of the leading dots
LeadingDots(s) ==
    IF \A i \in 1..Len(s) : s[i] = "." THEN Len(s)
    ELSE (CHOOSE i \in 1..Len(s) : s[i] # "." /\ \A j \in 1..(i - 1) : s[j] = ".") - 1

SplitextRoot(s) ==
    LET dots == {i \in (LeadingDots(s) + 1)..Len(s) : s[i] = "."}
    IN  IF dots = {} THEN s
        ELSE SubSeq(s, 1, (CHOOSE i \in dots : \A j \in dots : j <= i) - 1)

(***************************************************************************)
(* Configuration (module constants of batch_correct.py).                   *)
(***************************************************************************)
RAW_SUFFIX_LST == << <<"R","A","W">>, <<"r","a","w">>, <<"A","R","W">>,
                     <<"a","r","w">>, <<"N","E","F">>, <<"n","e","f">> >>

TIF_PNG_SUFFIX_LST == << <<"T","I","F","F">>, <<"t","i","f","f">>,
                         <<"T","I","F">>, <<"t","i","f">>,
                         <<"P","N","G">>, <<"p","n","g">> >>

InList(x, lst) == \E i \in 1..Len(lst) : lst[i] = x

TsvSuffix == <<".","t","s","v">>
TiffExt == <<".","t","i","f","f">>

(***************************************************************************)
(* The inputs of a run: directory entries, format tokens, reference paths. *)
(***************************************************************************)
F_a_arw == <<"a",".","a","r","w">>
F_a_ARW == <<"a",".","A","R","W">>
F_b_arw == <<"b",".","a","r","w">>
F_c_txt == <<"c",".","t","x","t">>
F_b_tif == <<"b",".","t","i","f">>
F_d_cr3 == <<"d",".","c","r","3">>

FileNames == {F_a_arw, F_a_ARW, F_b_arw, F_c_txt, F_b_tif, F_d_cr3}

Formats == { <<"a","r","w">>, <<"A","R","W">>, <<"t","i","f">>, <<"c","r","3">> }

R_arw == <<"r",".","a","r","w">>
R_tif == <<"r",".","t","i","f">>
R_tsv == <<"r",".","t","s","v">>
R_txt == <<"r",".","t","x","t">>

RefPaths == {R_arw, R_tif, R_tsv, R_txt}


(***************************************************************************)
(* Arrays (numpy.ndarray): a shape and the values as a sequence of rows.   *)
(* A 2-d array of shape (n, c) holds n rows of c values, a 1-d array of    *)
(* shape (c) one row, a 0-d array one row of one value.                    *)
(***************************************************************************)
Array2D(rows) == [shape |-> <<Len(rows), Len(rows[1])>>, data |-> rows]

\* the shape padded with leading 1s to two dimensions (numpy broadcasting)
Shape2(a) ==
    CASE Len(a.shape) = 2 -> a.shape
      [] Len(a.shape) = 1 -> <<1, a.shape[1]>>
      [] OTHER -> <<1, 1>>

\* numpy: two shapes broadcast when each pair of trailing dimensions is
\* equal or one of them is 1
Broadcastable(a, b) ==
    \A d \in 1..2 :
        \/ Shape2(a)[d] = Shape2(b)[d]
        \/ Shape2(a)[d] = 1
        \/ Shape2(b)[d] = 1

Max(x, y) == IF x >= y THEN x ELSE y

\* element (i, j) of a broadcast to a larger shape
At(a, i, j) ==
    a.data[IF Shape2(a)[1] = 1 THEN 1 ELSE i][IF Shape2(a)[2] = 1 THEN 1 ELSE j]

RECURSIVE SumOver(_, _)
SumOver(f, S) ==
    IF S = {} THEN 0
    ELSE LET x == CHOOSE y \in S : TRUE
         IN  f[x] + SumOver(f, S \ {x})

\* np.linalg.norm(a - b), as its square: the sum of the squared differences
\* of the broadcast operands (the square root is monotone, so comparing
\* squares compares norms)
NormSq(a, b) ==
    LET n == Max(Shape2(a)[1], Shape2(b)[1])
        c == Max(Shape2(a)[2], Shape2(b)[2])
        cells == (1..n) \X (1..c)
        sq == [p \in cells |->
                 (At(a, p[1], p[2]) - At(b, p[1], p[2]))
               * (At(a, p[1], p[2]) - At(b, p[1], p[2]))]
    IN  SumOver(sq, cells)

(***************************************************************************)
(* Image contents.  A scene is what an image file shows: whether the card  *)
(* detector finds a card in it, and the matrices the patch sampler yields  *)
(* on its extraction raster under the detected mask (m) and under the      *)
(* vertically flipped mask (mud).                                          *)
(***************************************************************************)
\* per-patch channel means (two channels)
PatchColours == { <<0, 0>>, <<0, 1>>, <<1, 1>> }

Matrices(n) == { Array2D(r) : r \in [1..n -> PatchColours] }

UniformMatrices(n) == { Array2D([i \in 1..n |-> col]) : col \in PatchColours }

NoArray == [shape |-> <<0>>, data |-> << >>]

NoCardScene == [card |-> FALSE, m |-> NoArray, mud |-> NoArray]

\* byRows[n]: the matrices of n rows to draw from
ScenesOf(byRows) ==
    {NoCardScene} \cup
    UNION { { [card |-> TRUE, m |-> a, mud |-> b] : a \in byRows[n], b \in byRows[n] }
            : n \in DOMAIN byRows }

\* the scenes of the images of a batch run
BatchScenes == ScenesOf([n \in 1..MaxRows |-> UniformMatrices(n)])

\* the scenes apply_color_correction is exercised on when called directly
AllScenes == ScenesOf([n \in 1..MaxRows |-> Matrices(n)])

(***************************************************************************)
(* Reference matrix files: lines of tab-separated tokens.                  *)
(***************************************************************************)
Num(v) == [ok |-> TRUE, val |-> v]
Junk == [ok |-> FALSE, val |-> 0]

FileOf(a) == [i \in 1..Len(a.data) |-> [j \in 1..Len(a.data[i]) |-> Num(a.data[i][j])]]

RefFiles ==
    UNION { { FileOf(a) : a \in UniformMatrices(n) } : n \in 1..MaxRows }
    \cup { [i \in 1..n |-> <<Num(0)>>] : n \in 1..MaxRows }
    \cup { [i \in 1..n |-> <<Num(0), Num(1), Num(1)>>] : n \in 1..MaxRows }
    \cup { << <<Num(0), Junk>> >>, << <<Num(0), Num(1)>>, <<Num(1)>> >> }

\* np.loadtxt(path, delimiter='\t'): every token must parse as a float and
\* every line must hold the same number of tokens; dimensions of size 1 are
\* squeezed away
LoadtxtOk(f) ==
    /\ \A i \in 1..Len(f) : \A j \in 1..Len(f[i]) : f[i][j].ok
    /\ \A i \in 1..Len(f) : Len(f[i]) = Len(f[1])

Loadtxt(f) ==
    LET n == Len(f)
        c == Len(f[1])
        vals == [i \in 1..n |-> [j \in 1..c |-> f[i][j].val]]
    IN  CASE n = 1 /\ c = 1 -> [shape |-> << >>, data |-> vals]
          [] n = 1 /\ c > 1 -> [shape |-> <<c>>, data |-> vals]
          [] n > 1 /\ c = 1 -> [shape |-> <<n>>, data |-> << [i \in 1..n |-> vals[i][1]] >>]
          [] OTHER -> [shape |-> <<n, c>>, data |-> vals]

\* the arrays a reference matrix file can load to
RefArrays == { Loadtxt(f) : f \in {g \in RefFiles : LoadtxtOk(g)} }

(***************************************************************************)
(* The external collaborators, as the scripts use them.                    *)
(***************************************************************************)
\* np.flipud(card_mask): a new mask, mirrored
Flipud(mask) == [mask EXCEPT !.flipped = ~mask.flipped]

\* pcv.transform.get_color_matrix(rgb_img, mask) on the extraction raster
GetColorMatrix(sc, mask) == IF mask.flipped THEN sc.mud ELSE sc.m

\* pcv.transform.affine_color_correction fits source rows onto target rows:
\* it needs matrices of one shape
AffineFits(source, target) == source.shape = target.shape

(***************************************************************************)
(* Decoding.  A raster is described by the decoder that produced it and    *)
(* the two postprocess() switches the scripts vary.  cv2.imread applies    *)
(* neither white balance nor brightening.                                  *)
(***************************************************************************)
RawDecode(no_auto_bright, use_auto_wb) ==
    [decoder |-> "rawpy", no_auto_bright |-> no_auto_bright,
     use_auto_wb |-> use_auto_wb]

Imread == [decoder |-> "cv2", no_auto_bright |-> TRUE, use_auto_wb |-> FALSE]

NoDecode == [decoder |-> "none", no_auto_bright |-> TRUE, use_auto_wb |-> FALSE]

\* detect_color_card(), lines 103-125: the raster handed to the detector
DetectionDecode(fmt) ==
    IF InList(fmt, RAW_SUFFIX_LST) THEN RawDecode(FALSE, TRUE) ELSE Imread

\* the sampling raster decoded with the detector's switches
ExtractionDecodeAuto(fmt) ==
    IF InList(fmt, RAW_SUFFIX_LST) THEN RawDecode(FALSE, TRUE) ELSE Imread

\* get_ref_color_matrix(), lines 176-198, and apply_color_correction(),
\* lines 235-257: the raster the patches are sampled from and the
\* correction is applied to
ExtractionDecode(fmt) ==
    IF InList(fmt, RAW_SUFFIX_LST) THEN RawDecode(TRUE, FALSE) ELSE Imread

\* pcv.params.debug left switched on
DebugOffKept == "print"

\* pcv.params.debug as detect_color_card() sets it (line 100) and as
\* get_ref_color_matrix() sets it for its own detection (line 158)
DebugPrint == "print"

\* pcv.params.debug = None (lines 173 and 232)
DebugOff == "None"

\* one invocation of a library routine or of a step of the loop: the step,
\* the image it works on, the decoding of the raster it is handed and the
\* debug mode in force
Call(op, path, raster, dbg) ==
    [op |-> op, path |-> path, raster |-> raster, debug |-> dbg]

\* the invocations with the flipped-mask sampling done first and twice
CorrectionCallsRepeated(path, fmt, dbg) ==
    << Call("extract_ud", path, ExtractionDecode(fmt), dbg),
       Call("extract", path, ExtractionDecode(fmt), dbg),
       Call("extract_ud", path, ExtractionDecode(fmt), dbg),
       Call("orient", path, NoDecode, dbg),
       Call("affine", path, ExtractionDecode(fmt), dbg) >>

\* apply_color_correction(), lines 260-289: its invocations, in order
CorrectionCalls(path, fmt, dbg) ==
    << Call("extract", path, ExtractionDecode(fmt), dbg),
       Call("extract_ud", path, ExtractionDecode(fmt), dbg),
       Call("orient", path, NoDecode, dbg),
       Call("affine", path, ExtractionDecode(fmt), dbg) >>

(***************************************************************************)
(* State.                                                                  *)
(***************************************************************************)
VARIABLES
    libs,               \* the module's globals bind rawpy, cv2, pcv and np
    input_dir,          \* os.listdir(input_dir_path)
    img_format,         \* the declared image-format token
    ref_path,           \* the reference image or matrix file
    pc,                 \* where main() stands
    target_image_lst,   \* the selected, sorted file names
    idx,                \* position of the loop in target_image_lst
    ref_color_matrix,   \* the reference matrix, once resolved
    ref_kind,           \* the branch that resolves the reference
    scene,              \* content of the image the loop is working on
    card_mask,          \* the mask detection returned for it
    affine,             \* the affine correction call of this iteration
    rgb_corr,           \* the corrected raster of this iteration
    written,            \* the files saved to output_dir_path, in order
    stderr,             \* the messages printed to sys.stderr
    exc,                \* the exception that ended the run, if any
    debug,              \* pcv.params.debug
    detected,           \* the paths handed to the card detector, in order
    calls,              \* the invocations of the run, in order
    saved_matrix,       \* the matrix get_ref_color_matrix.py was handed to save
    ref_file,           \* the lines of the matrix file it wrote
    target_scene,       \* correct_from_proxy: content of the target image
    cli_globals         \* the module's globals bind the names cli() assigns

vars == << libs, input_dir, img_format, ref_path, pc, target_image_lst, idx,
           ref_color_matrix, ref_kind, scene, card_mask, affine, rgb_corr,
           written, stderr, exc, debug, detected, calls, saved_matrix,
           ref_file, target_scene, cli_globals >>

\* what belongs to the other scripts
others == << saved_matrix, ref_file, target_scene, cli_globals >>

NoFile == << >>

NoMask == [image |-> << >>, flipped |-> FALSE]
NoCall == [called |-> FALSE]
NoRaster == [image |-> << >>]

\* main(), lines 305-310: the packages are imported inside main(), so the
\* names are main's locals; the module-level helpers look them up in the
\* module's globals, where only an embedding that binds them there (libs)
\* lets the helpers run.  Run as a script the names are unbound.
Init ==
    /\ libs \in BOOLEAN
    /\ input_dir \in {S \in SUBSET FileNames : Cardinality(S) <= MaxFiles}
    /\ img_format \in Formats
    /\ ref_path \in RefPaths
    /\ pc = "list"
    /\ target_image_lst = << >>
    /\ idx = 1
    /\ ref_color_matrix = NoArray
    /\ ref_kind = "none"
    /\ scene = NoCardScene
    /\ card_mask = NoMask
    /\ affine = NoCall
    /\ rgb_corr = NoRaster
    /\ written = << >>
    /\ stderr = << >>
    /\ exc = "none"
    /\ debug = "unset"
    /\ detected = << >>
    /\ calls = << >>
    /\ saved_matrix = NoArray
    /\ ref_file = NoFile
    /\ target_scene = NoCardScene
    /\ cli_globals = TRUE

\* an uncaught exception (or sys.exit) ends the process
Raise(e) ==
    /\ exc' = e
    /\ pc' = "aborted"

\* list.sort() of a set of distinct names
RECURSIVE SortNames(_)
SortNames(S) ==
    IF S = {} THEN << >>
    ELSE LET m == CHOOSE x \in S : \A y \in S \ {x} : StrLess(x, y)
         IN  <<m>> \o SortNames(S \ {m})

\* the comprehension's filter: x.lower().endswith(img_format.lower())
Selected(x, fmt) == EndsWith(Lower(x), Lower(fmt))

\* main(), lines 312-328: select the target images and sort them
TargetImages(dir, fmt) == SortNames({x \in dir : Selected(x, fmt)})

ListTargets ==
    /\ pc = "list"
    /\ target_image_lst' = TargetImages(input_dir, img_format)
    /\ pc' = "ref"
    /\ UNCHANGED << libs, input_dir, img_format, ref_path, idx, ref_color_matrix,
                    ref_kind, scene, card_mask, affine, rgb_corr, written,
                    stderr, exc, debug, detected, calls >>
    /\ UNCHANGED others

\* the image branch without the test of the reference path's suffix
IsImageRefAnySuffix(path, fmt) ==
    InList(fmt, RAW_SUFFIX_LST \o TIF_PNG_SUFFIX_LST)

\* main(), lines 331-332 and 343: which branch resolves the reference
IsImageRef(path, fmt) ==
    /\ InList(fmt, RAW_SUFFIX_LST \o TIF_PNG_SUFFIX_LST)
    /\ EndsWith(Lower(path), Lower(fmt))

IsMatrixRef(path, fmt) ==
    /\ ~IsImageRef(path, fmt)
    /\ EndsWith(path, TsvSuffix)

\* detect_color_card(), lines 103 and 123: a format the decoders know
KnownFormat(fmt) == InList(fmt, RAW_SUFFIX_LST) \/ InList(fmt, TIF_PNG_SUFFIX_LST)

\* where main() goes once the reference matrix is bound
LoopEntry == IF Len(target_image_lst) = 0 THEN "done" ELSE "detect"

\* main() line 333 calling get_ref_color_matrix(), which calls
\* detect_color_card() on the reference image and samples its patches
GetRefColorMatrix ==
    /\ pc = "ref"
    /\ IsImageRef(ref_path, img_format)
    /\ UNCHANGED << libs, input_dir, img_format, ref_path, target_image_lst, idx,
                    scene, card_mask, affine, rgb_corr, written >>
    /\ UNCHANGED others
    /\ ref_kind' = "image"
    /\ IF ~libs
       THEN /\ Raise("NameError")
            /\ UNCHANGED << ref_color_matrix, stderr, debug, detected, calls >>
       ELSE IF ~KnownFormat(img_format)
       THEN /\ Raise("SystemExit")
            /\ debug' = DebugPrint
            /\ stderr' = Append(stderr, [msg |-> "format", image |-> ref_path])
            /\ UNCHANGED << ref_color_matrix, detected, calls >>
       ELSE \E sc \in BatchScenes :
            /\ detected' = Append(detected, [kind |-> "ref", path |-> ref_path])
            /\ UNCHANGED stderr
            /\ IF ~sc.card
               THEN /\ Raise("CardNotFound")
                    /\ debug' = DebugPrint
                    /\ calls' = Append(calls,
                           Call("detect", ref_path, DetectionDecode(img_format),
                                DebugPrint))
                    /\ UNCHANGED ref_color_matrix
               ELSE /\ debug' = DebugOff
                    /\ calls' = calls \o
                         << Call("detect", ref_path, DetectionDecode(img_format),
                                 DebugPrint),
                            Call("extract", ref_path, ExtractionDecode(img_format),
                                 debug') >>
                    /\ ref_color_matrix' = sc.m
                    /\ exc' = exc
                    /\ pc' = LoopEntry

\* main() line 344 calling read_ref_color_matrix()
ReadRefColorMatrix ==
    /\ pc = "ref"
    /\ IsMatrixRef(ref_path, img_format)
    /\ UNCHANGED << libs, input_dir, img_format, ref_path, target_image_lst, idx,
                    scene, card_mask, affine, rgb_corr, written, stderr, debug,
                    detected, calls >>
    /\ UNCHANGED others
    /\ ref_kind' = "matrix"
    /\ IF ~libs
       THEN /\ Raise("NameError")
            /\ UNCHANGED ref_color_matrix
       ELSE \E f \in RefFiles :
            IF ~LoadtxtOk(f)
            THEN /\ Raise("ValueError")
                 /\ UNCHANGED ref_color_matrix
            ELSE /\ ref_color_matrix' = Loadtxt(f)
                 /\ exc' = exc
                 /\ pc' = LoopEntry

\* main(), lines 347-353: neither an image of the declared format nor a .tsv
RefUnsupported ==
    /\ pc = "ref"
    /\ ~IsImageRef(ref_path, img_format)
    /\ ~IsMatrixRef(ref_path, img_format)
    /\ stderr' = Append(stderr, [msg |-> "ref_path", image |-> ref_path])
    /\ ref_kind' = "unsupported"
    /\ Raise("SystemExit")
    /\ UNCHANGED << libs, input_dir, img_format, ref_path, target_image_lst, idx,
                    ref_color_matrix, scene, card_mask, affine,
                    rgb_corr, written, debug, detected, calls >>
    /\ UNCHANGED others

\* the image the loop is working on
Image == target_image_lst[idx]

\* main() line 359 calling detect_color_card() on a batch image
DetectColorCard ==
    /\ pc = "detect"
    /\ idx <= Len(target_image_lst)
    /\ UNCHANGED << libs, input_dir, img_format, ref_path, target_image_lst, idx,
                    ref_color_matrix, ref_kind, affine, rgb_corr, written >>
    /\ UNCHANGED others
    /\ IF ~libs
       THEN /\ Raise("NameError")
            /\ UNCHANGED << scene, card_mask, stderr, debug, detected, calls >>
       ELSE IF ~KnownFormat(img_format)
       THEN /\ Raise("SystemExit")
            /\ debug' = DebugPrint
            /\ stderr' = Append(stderr, [msg |-> "format", image |-> Image])
            /\ UNCHANGED << scene, card_mask, detected, calls >>
       ELSE \E sc \in BatchScenes :
            /\ debug' = DebugPrint
            /\ scene' = sc
            /\ detected' = Append(detected, [kind |-> "batch", path |-> Image])
            /\ calls' = Append(calls,
                   Call("detect", Image, DetectionDecode(img_format), debug'))
            /\ UNCHANGED stderr
            /\ IF ~sc.card
               THEN /\ Raise("CardNotFound")
                    /\ UNCHANGED card_mask
               ELSE /\ card_mask' = [image |-> Image, flipped |-> FALSE]
                    /\ exc' = exc
                    /\ pc' = "correct"

\* the comparison with its operands exchanged
FlippedSelectedInverted(diff_normal, diff_flipped) == diff_normal <= diff_flipped

\* apply_color_correction(), lines 272-282: the orientation whose matrix is
\* passed on as the source matrix
FlippedSelected(diff_normal, diff_flipped) == diff_normal >= diff_flipped

\* the call with source and target exchanged
AffineCallSwapped(image, color_matrix, ref, diff_normal, diff_flipped) ==
    [called |-> TRUE,
     image |-> image,
     source_matrix |-> ref,
     target_matrix |-> color_matrix,
     diff_normal |-> diff_normal,
     diff_flipped |-> diff_flipped]

\* apply_color_correction(), lines 285-289: the arguments of the call of
\* pcv.transform.affine_color_correction
AffineCall(image, color_matrix, ref, diff_normal, diff_flipped) ==
    [called |-> TRUE,
     image |-> image,
     source_matrix |-> color_matrix,
     target_matrix |-> ref,
     diff_normal |-> diff_normal,
     diff_flipped |-> diff_flipped]

\* main() line 371 calling apply_color_correction()
ApplyColorCorrection ==
    /\ pc = "correct"
    /\ UNCHANGED << libs, input_dir, img_format, ref_path, target_image_lst, idx,
                    ref_color_matrix, ref_kind, scene, card_mask, written,
                    detected >>
    /\ UNCHANGED others
    /\ IF ~libs
       THEN /\ Raise("NameError")
            /\ UNCHANGED << affine, rgb_corr, stderr, debug, calls >>
       ELSE LET color_matrix == GetColorMatrix(scene, card_mask)
                color_matrix_ud == GetColorMatrix(scene, Flipud(card_mask))
                steps == CorrectionCalls(card_mask.image, img_format, debug')
            IN  /\ debug' = DebugOff
                /\ IF \/ ~Broadcastable(color_matrix, ref_color_matrix)
                      \/ ~Broadcastable(color_matrix_ud, ref_color_matrix)
                   THEN /\ Raise("ValueError")
                        /\ calls' = calls \o SubSeq(steps, 1, Len(steps) - 1)
                        /\ UNCHANGED << affine, rgb_corr, stderr >>
                   ELSE LET diff_normal == NormSq(color_matrix, ref_color_matrix)
                            diff_flipped == NormSq(color_matrix_ud, ref_color_matrix)
                            flip == FlippedSelected(diff_normal, diff_flipped)
                            source == IF flip THEN color_matrix_ud ELSE color_matrix
                        IN  /\ calls' = calls \o steps
                            /\ stderr' = IF flip
                                         THEN Append(stderr, [msg |-> "upside_down",
                                                              image |-> card_mask.image])
                                         ELSE stderr
                            /\ affine' = AffineCall(card_mask.image, source,
                                                     ref_color_matrix,
                                                     diff_normal, diff_flipped)
                            /\ IF ~AffineFits(affine'.source_matrix,
                                              affine'.target_matrix)
                               THEN /\ Raise("ShapeMismatch")
                                    /\ UNCHANGED rgb_corr
                               ELSE /\ rgb_corr' = [image |-> card_mask.image]
                                    /\ exc' = exc
                                    /\ pc' = "save"

\* main() line 379: the name of the output file
OutName(image) == SplitextRoot(image) \o TiffExt

\* main(), lines 377-385: save the corrected raster; the loop moves on
Save ==
    /\ pc = "save"
    /\ written' = Append(written, [name |-> OutName(Image), image |-> rgb_corr.image])
    /\ idx' = idx + 1
    /\ pc' = IF idx + 1 > Len(target_image_lst) THEN "done" ELSE "detect"
    /\ scene' = NoCardScene
    /\ card_mask' = NoMask
    /\ affine' = NoCall
    /\ rgb_corr' = NoRaster
    /\ calls' = Append(calls, Call("write", Image, NoDecode, debug))
    /\ UNCHANGED << libs, input_dir, img_format, ref_path, target_image_lst,
                    ref_color_matrix, ref_kind, stderr, exc, debug, detected >>
    /\ UNCHANGED others

Next ==
    \/ ListTargets
    \/ GetRefColorMatrix
    \/ ReadRefColorMatrix
    \/ RefUnsupported
    \/ DetectColorCard
    \/ ApplyColorCorrection
    \/ Save

Spec == Init /\ [][Next]_vars

(***************************************************************************)
(* apply_color_correction() called on its own: any scene with a card, any  *)
(* reference array.                                                        *)
(***************************************************************************)
InitApply ==
    /\ libs \in BOOLEAN
    /\ input_dir = {F_a_arw}
    /\ img_format = <<"a","r","w">>
    /\ ref_path = R_tsv
    /\ pc = "correct"
    /\ target_image_lst = <<F_a_arw>>
    /\ idx = 1
    /\ ref_color_matrix \in RefArrays
    /\ ref_kind = "matrix"
    /\ scene \in {sc \in AllScenes : sc.card}
    /\ card_mask = [image |-> F_a_arw, flipped |-> FALSE]
    /\ affine = NoCall
    /\ rgb_corr = NoRaster
    /\ written = << >>
    /\ stderr = << >>
    /\ exc = "none"
    /\ debug = DebugPrint
    /\ detected = << [kind |-> "batch", path |-> F_a_arw] >>
    /\ calls = << Call("detect", F_a_arw, DetectionDecode(img_format), DebugPrint) >>
    /\ saved_matrix = NoArray
    /\ ref_file = NoFile
    /\ target_scene = NoCardScene
    /\ cli_globals = TRUE

NextApply == ApplyColorCorrection

SpecApply == InitApply /\ [][NextApply]_vars

(***************************************************************************)
(* Properties.                                                             *)
(***************************************************************************)
IsBatch(d) == d.kind = "batch"
IsRefDetection(d) == d.kind = "ref"

\* the batch images handed to the card detector, in order
BatchPaths == [i \in 1..Len(SelectSeq(detected, IsBatch)) |->
                 SelectSeq(detected, IsBatch)[i].path]

Reported(kind, image) ==
    \E i \in 1..Len(stderr) : stderr[i] = [msg |-> kind, image |-> image]

ReferenceResolved == ref_color_matrix # NoArray

\* the number of channel means of a patch
NumChannels == Len(CHOOSE col \in PatchColours : TRUE)

\* C1: in apply_color_correction, when the two distances to the reference
\* are exactly equal, the non-flipped matrix is the source matrix of the
\* affine correction and no 'upside down' message is printed.
C1_TiePrefersNonFlipped ==
    ( /\ affine.called
      /\ AffineFits(affine.source_matrix, affine.target_matrix)
      /\ affine.diff_normal = affine.diff_flipped
      /\ scene.m # scene.mud )
        => /\ affine.source_matrix = GetColorMatrix(scene, card_mask)
           /\ ~Reported("upside_down", affine.image)

\* C2: a batch run in which card detection fails on one batch image still
\* completes, with one output file less than selected images and exactly
\* one image reported as skipped.
C2_CardNotFoundSkipsOneImage ==
    ( /\ pc \in {"done", "aborted"}
      /\ exc = "CardNotFound"
      /\ Len(target_image_lst) >= 2
      /\ Len(ref_color_matrix.shape) = 2
      /\ ref_color_matrix.shape[2] = NumChannels
      /\ Len(detected) > 0
      /\ detected[Len(detected)].kind = "batch" )
        => /\ pc = "done"
           /\ Len(written) = Len(target_image_lst) - 1
           /\ Cardinality({i \in 1..Len(stderr) : stderr[i].msg = "skipped"}) = 1

\* C3: once apply_color_correction has compared the two distances, the
\* affine correction is called; with the flipped distance strictly smaller
\* its source matrix is the flipped matrix and the 'upside down' message is
\* printed, with the non-flipped distance strictly smaller its source matrix
\* is the non-flipped matrix and nothing is printed; the message ends
\* nothing: with matrices that fit, the corrected raster is returned.
C3_StrictlyCloserOrientationWins ==
    (pc # "correct" /\ exc \notin {"NameError", "ValueError"})
        => LET dn == NormSq(scene.m, ref_color_matrix)
               df == NormSq(scene.mud, ref_color_matrix)
           IN  /\ affine.called
               /\ exc # "SystemExit"
               /\ df < dn => /\ affine.source_matrix = scene.mud
                             /\ Reported("upside_down", card_mask.image)
               /\ dn < df => /\ affine.source_matrix = scene.m
                             /\ ~Reported("upside_down", card_mask.image)
               /\ AffineFits(affine.source_matrix, ref_color_matrix)
                      => pc = "save" /\ rgb_corr.image = card_mask.image

C3_Witness ==
    /\ pc = "save"
    /\ affine.called
    /\ NormSq(scene.mud, ref_color_matrix) < NormSq(scene.m, ref_color_matrix)
    /\ scene.m # scene.mud
    /\ affine.source_matrix = scene.mud
    /\ Reported("upside_down", card_mask.image)

\* C4: whenever the reference matrix cannot be established (unrecognized
\* kind of reference, a matrix file that does not parse, a matrix file whose
\* column count is not the channel count), no batch image is handed to the
\* card detector and no output file is written.
C4_ReferenceFailureAbortsFirst ==
    ( \/ ref_kind = "unsupported"
      \/ ref_kind = "matrix" /\ exc = "ValueError" /\ ~ReferenceResolved
      \/ /\ ref_kind = "matrix"
         /\ ReferenceResolved
         /\ Len(ref_color_matrix.shape) = 2
         /\ ref_color_matrix.shape[2] # NumChannels )
        => /\ BatchPaths = << >>
           /\ written = << >>

\* C5: when the source matrix of an image and the reference matrix differ in
\* their row counts, the correction of that image fails, nothing is written
\* for it, and the run goes on with the remaining images.
C5_ShapeMismatchSkipsOneImage ==
    ( /\ card_mask # NoMask
      /\ pc # "correct"
      /\ libs
      /\ Len(ref_color_matrix.shape) = 2
      /\ ref_color_matrix.shape[1] # scene.m.shape[1] )
        => /\ pc # "aborted"
           /\ exc = "none"
           /\ \A i \in 1..Len(written) : written[i].image # card_mask.image

\* C6: a format token in neither suffix list ends the run when the
\* reference is an image, and with the reference read from a matrix file it
\* makes the run skip the image and go on.
C6_UnsupportedFormatSkipsBatchImage ==
    /\ ( /\ pc \notin {"list", "ref"}
         /\ ~KnownFormat(img_format)
         /\ ~EndsWith(ref_path, TsvSuffix) )
           => pc = "aborted"
    /\ ( /\ ref_kind = "matrix"
         /\ ReferenceResolved
         /\ \E i \in 1..Len(stderr) : stderr[i].msg = "format" )
           => pc # "aborted" /\ exc = "none"

\* C7: the reference is resolved along exactly one of three branches: the
\* reference image (one detection on it, before any other), the matrix file
\* (no detection on a reference, in the whole run), or the failure for an
\* unrecognized kind (nothing resolved, run ended); a reference path ending
\* in .tsv takes the matrix branch.
C7_OneResolutionBranch ==
    (pc \notin {"list", "ref"})
        => /\ ref_kind \in {"image", "matrix", "unsupported"}
           /\ ref_kind = "unsupported"
                  => /\ pc = "aborted" /\ exc = "SystemExit"
                     /\ ~ReferenceResolved
                     /\ detected = << >>
           /\ ref_kind = "matrix"
                  => SelectSeq(detected, IsRefDetection) = << >>
           /\ EndsWith(ref_path, TsvSuffix)
                  => /\ ref_kind = "matrix"
                     /\ SelectSeq(detected, IsRefDetection) = << >>
           /\ (ref_kind = "image" /\ ReferenceResolved)
                  => /\ detected[1] = [kind |-> "ref", path |-> ref_path]
                     /\ Len(SelectSeq(detected, IsRefDetection)) = 1
           /\ ref_kind = "image"
                  => EndsWith(Lower(ref_path), Lower(img_format))

C7_Witness ==
    /\ pc = "done"
    /\ ref_kind = "matrix"
    /\ Len(written) >= 2
    /\ SelectSeq(detected, IsRefDetection) = << >>

\* C8: the reference matrix is bound once, before the first batch image is
\* handed to the detector; no later step changes it, and it is the target
\* matrix of every affine correction.
C8_ReferenceReadOnly ==
    [][ /\ ReferenceResolved => ref_color_matrix' = ref_color_matrix
        /\ ref_kind # "none" => ref_kind' = ref_kind
        /\ affine'.called
               => /\ ReferenceResolved
                  /\ affine'.target_matrix = ref_color_matrix
        /\ Len(detected') > Len(detected) /\ detected'[Len(detected')].kind = "batch"
               => ReferenceResolved ]_vars

C8_Witness ==
    /\ pc = "save"
    /\ idx = 2
    /\ affine.called
    /\ affine.target_matrix = ref_color_matrix
    /\ affine.source_matrix # ref_color_matrix

\* C9: a run with a reference hands to the card detector exactly the files
\* of the directory whose names end, ignoring case, with the format token,
\* each once and in ascending order.
C9_SelectedFilesProcessedInOrder ==
    (pc \in {"done", "aborted"} /\ ReferenceResolved /\ KnownFormat(img_format))
        => /\ {BatchPaths[i] : i \in 1..Len(BatchPaths)}
                = {x \in input_dir : EndsWith(Lower(x), Lower(img_format))}
           /\ \A i, j \in 1..Len(BatchPaths) :
                  i < j => StrLess(BatchPaths[i], BatchPaths[j])

\* C10: every output is named after its input's base name plus '.tiff', and
\* no two inputs are written to the same output name.
C10_OutputNamesDistinct ==
    /\ \A i \in 1..Len(written) :
           written[i].name = SplitextRoot(written[i].image) \o TiffExt
    /\ \A i, j \in 1..Len(written) :
           written[i].image # written[j].image => written[i].name # written[j].name

\* the switches of a raster: white balance and brightening left alone
IsExtractionProfile(r) == r.no_auto_bright /\ ~r.use_auto_wb

\* the switches of a raster: automatic white balance and brightening
IsDetectionProfile(r) == ~r.no_auto_bright /\ r.use_auto_wb

\* the invocations that sample colours or correct them
UsesColour(c) == c.op \in {"extract", "extract_ud", "affine"}

\* C11: in a batch_correct run every matrix passed to the affine correction
\* (the source, and a reference taken from an image) was sampled from a
\* raster decoded with automatic white balance and brightening off, and a
\* raster decoded with them on is handed to card detection only.
C11_ColourFromExtractionProfile ==
    /\ \A i \in DOMAIN calls :
          /\ UsesColour(calls[i]) => IsExtractionProfile(calls[i].raster)
          /\ IsDetectionProfile(calls[i].raster) => calls[i].op = "detect"
    /\ affine.called =>
          /\ affine.source_matrix \in
                { GetColorMatrix(scene, card_mask),
                  GetColorMatrix(scene, Flipud(card_mask)) }
          /\ \E i \in DOMAIN calls :
                /\ calls[i].op = "extract"
                /\ calls[i].path = affine.image
                /\ IsExtractionProfile(calls[i].raster)
          /\ \E i \in DOMAIN calls :
                /\ calls[i].op = "extract_ud"
                /\ calls[i].path = affine.image
                /\ IsExtractionProfile(calls[i].raster)
          /\ affine.target_matrix = ref_color_matrix
          /\ ref_kind = "image" =>
                \E i \in DOMAIN calls :
                    /\ calls[i].op = "extract"
                    /\ calls[i].path = ref_path
                    /\ IsExtractionProfile(calls[i].raster)

\* a RAW image corrected against a reference taken from a RAW image: the
\* detector saw a raster with the automatic adjustments, the matrices did not
C11_Witness ==
    /\ pc = "save"
    /\ affine.called
    /\ ref_kind = "image"
    /\ InList(img_format, RAW_SUFFIX_LST)
    /\ \E i \in DOMAIN calls :
          /\ calls[i].op = "detect"
          /\ calls[i].path = affine.image
          /\ IsDetectionProfile(calls[i].raster)
    /\ \E i \in DOMAIN calls :
          /\ calls[i].op = "affine"
          /\ IsExtractionProfile(calls[i].raster)

(***************************************************************************)
(* The matrix file: get_ref_color_matrix.py writes it, batch_correct.py    *)
(* reads it.  A value is a whole number of a fixed small unit, so that the *)
(* digits a format keeps and the digits it drops can be told apart.        *)
(***************************************************************************)
\* the digits after the point in f'{x:.8e}'
Decimals == 8

RECURSIVE Pow10(_)
Pow10(n) == IF n = 0 THEN 1 ELSE 10 * Pow10(n - 1)

\* the number of decimal digits of x
RECURSIVE Digits(_)
Digits(x) == IF x < 10 THEN 1 ELSE 1 + Digits(x \div 10)

\* x rounded to a multiple of u, a tie going to the even multiple
RoundTo(x, u) ==
    LET q == x \div u
        r == x % u
    IN  IF 2 * r < u THEN q * u
        ELSE IF 2 * r > u THEN (q + 1) * u
        ELSE IF q % 2 = 0 THEN q * u ELSE (q + 1) * u

\* f'{x:.8e}': one digit before the point and Decimals after it; the token
\* is modelled by the number its digits denote
FormatE(x) ==
    IF Digits(x) <= Decimals + 1 THEN Num(x)
    ELSE Num(RoundTo(x, Pow10(Digits(x) - Decimals - 1)))

\* get_ref_color_matrix.py main(), lines 231-235: one line per row
FormatMatrix(a) ==
    [i \in 1..Len(a.data) |-> [j \in 1..Len(a.data[i]) |-> FormatE(a.data[i][j])]]

\* values to save: short ones, and ten-digit ones whose last digit is dropped
SavedValues == {0, 1234567894, 1999999995}

SavedRows == [1..2 -> SavedValues]

\* the matrices get_color_matrix() can hand to main() for saving
SavedMatrices ==
    UNION { { Array2D(r) : r \in [1..n -> SavedRows] } : n \in 1..MaxRows }

InitRoundTrip ==
    /\ libs \in BOOLEAN
    /\ input_dir = {}
    /\ img_format = <<"a","r","w">>
    /\ ref_path = R_tsv
    /\ pc = "write"
    /\ target_image_lst = << >>
    /\ idx = 1
    /\ ref_color_matrix = NoArray
    /\ ref_kind = "none"
    /\ scene = NoCardScene
    /\ card_mask = NoMask
    /\ affine = NoCall
    /\ rgb_corr = NoRaster
    /\ written = << >>
    /\ stderr = << >>
    /\ exc = "none"
    /\ debug = DebugOff
    /\ detected = << >>
    /\ calls = << >>
    /\ saved_matrix \in SavedMatrices
    /\ ref_file = NoFile
    /\ target_scene = NoCardScene
    /\ cli_globals = TRUE

\* get_ref_color_matrix.py main(), lines 231-235
WriteRefMatrix ==
    /\ pc = "write"
    /\ ref_file' = FormatMatrix(saved_matrix)
    /\ pc' = "read"
    /\ UNCHANGED << libs, input_dir, img_format, ref_path, target_image_lst, idx,
                    ref_color_matrix, ref_kind, scene, card_mask, affine,
                    rgb_corr, written, stderr, exc, debug, detected, calls,
                    saved_matrix, target_scene, cli_globals >>

\* batch_correct.py read_ref_color_matrix(), lines 209-220, on that file
ReadWrittenMatrix ==
    /\ pc = "read"
    /\ ref_kind' = "matrix"
    /\ UNCHANGED << libs, input_dir, img_format, ref_path, target_image_lst, idx,
                    scene, card_mask, affine, rgb_corr, written, stderr, debug,
                    detected, calls, saved_matrix, ref_file, target_scene,
                    cli_globals >>
    /\ IF ~libs
       THEN /\ Raise("NameError")
            /\ UNCHANGED ref_color_matrix
       ELSE IF ~LoadtxtOk(ref_file)
       THEN /\ Raise("ValueError")
            /\ UNCHANGED ref_color_matrix
       ELSE /\ ref_color_matrix' = Loadtxt(ref_file)
            /\ exc' = exc
            /\ pc' = "loaded"

NextRoundTrip ==
    \/ WriteRefMatrix
    \/ ReadWrittenMatrix

SpecRoundTrip == InitRoundTrip /\ [][NextRoundTrip]_vars

\* x and y agree to the given number of significant digits of x
WithinPrecision(x, y, sig) ==
    LET d == Digits(x)
        diff == IF x >= y THEN x - y ELSE y - x
    IN  IF d <= sig THEN x = y
        ELSE 2 * diff <= Pow10(d - sig)

\* C12: a matrix written by get_ref_color_matrix.main's formatter and read
\* back by batch_correct.read_ref_color_matrix has the rows and columns of
\* the original, in the original order, every value within the precision of
\* 8 significant digits; this for every shape, a single row included.
C12_RoundTripKeepsShapeAndValues ==
    pc = "loaded" =>
        /\ ref_color_matrix.shape = saved_matrix.shape
        /\ Len(ref_color_matrix.data) = Len(saved_matrix.data)
        /\ \A i \in 1..Len(saved_matrix.data) :
              /\ Len(ref_color_matrix.data[i]) = Len(saved_matrix.data[i])
              /\ \A j \in 1..Len(saved_matrix.data[i]) :
                    WithinPrecision(saved_matrix.data[i][j],
                                    ref_color_matrix.data[i][j], 8)

\* the steps of one iteration of the loop, in the order of the claim
Steps == << "detect", "extract", "extract_ud", "orient", "affine", "write" >>

\* the steps invoked on the image at path p, in the order of invocation
OpsOf(p) ==
    LET Of(c) == c.path = p
        sel == SelectSeq(calls, Of)
    IN  [i \in 1..Len(sel) |-> sel[i].op]

IsPrefix(s, t) == Len(s) <= Len(t) /\ s = SubSeq(t, 1, Len(s))

\* the position of a selected image in the sorted list (0: not selected)
PosInList(p) ==
    IF \E k \in 1..Len(target_image_lst) : target_image_lst[k] = p
    THEN CHOOSE k \in 1..Len(target_image_lst) : target_image_lst[k] = p
    ELSE 0

IsPcvCall(c) == c.op \in {"detect", "extract", "extract_ud", "affine"}

IsDetectCall(c) == c.op = "detect"

\* PlantCV writes a review image from a routine invoked in debug mode 'print'
EmitsArtifact(c) == IsPcvCall(c) /\ c.debug = "print"

ReviewArtifacts == SelectSeq(calls, EmitsArtifact)

\* C16: throughout a batch_correct run the debug mode is 'print' at every
\* invocation of the card detector and None at every invocation of the patch
\* sampler and of the affine correction: the review images come from
\* detection only, one per detection call.
C16_DebugOnlyForDetection ==
    /\ \A i \in DOMAIN calls :
          /\ calls[i].op = "detect" => calls[i].debug = "print"
          /\ calls[i].op \in {"extract", "extract_ud", "affine"}
                => calls[i].debug = "None"
    /\ \A i \in DOMAIN ReviewArtifacts : ReviewArtifacts[i].op = "detect"
    /\ Len(ReviewArtifacts) = Len(SelectSeq(calls, IsDetectCall))
    /\ Len(ReviewArtifacts) = Len(detected)

\* the mode was switched off for a correction and on again for the next
\* detection, after a reference taken from an image
C16_Witness ==
    /\ ref_kind = "image"
    /\ \E i, j \in DOMAIN calls :
          /\ i < j
          /\ calls[i].op = "affine"
          /\ calls[i].debug = "None"
          /\ calls[j].op = "detect"
          /\ calls[j].debug = "print"
    /\ Len(ReviewArtifacts) >= 3

(***************************************************************************)
(* correct_from_proxy.py: the card of a proxy image corrects a target      *)
(* image.  The packages are imported at module level; the images are RAW.  *)
(***************************************************************************)
ref_image_path == R_arw
proxy_image_path == F_a_arw
target_image_path == F_b_arw
output_path == << "o", ".", "t", "i", "f", "f" >>

\* the arguments of the correction with the two images exchanged
ProxyAffineCallExchanged(proxy, target, proxy_scene, tgt_scene, mask, ref) ==
    [called |-> TRUE,
     image |-> proxy,
     source_matrix |-> GetColorMatrix(tgt_scene, mask),
     target_matrix |-> ref]

\* proxy_correct(), lines 218-245: the matrix is sampled from the proxy's
\* raster, the raster handed to the correction is the target's
ProxyAffineCall(proxy, target, proxy_scene, tgt_scene, mask, ref) ==
    [called |-> TRUE,
     image |-> target,
     source_matrix |-> GetColorMatrix(proxy_scene, mask),
     target_matrix |-> ref]

InitProxy ==
    /\ libs = TRUE
    /\ input_dir = {}
    /\ img_format = <<"a","r","w">>
    /\ ref_path = ref_image_path
    /\ pc = "proxy_ref"
    /\ target_image_lst = << >>
    /\ idx = 1
    /\ ref_color_matrix = NoArray
    /\ ref_kind = "none"
    /\ scene = NoCardScene
    /\ card_mask = NoMask
    /\ affine = NoCall
    /\ rgb_corr = NoRaster
    /\ written = << >>
    /\ stderr = << >>
    /\ exc = "none"
    /\ debug = "unset"
    /\ detected = << >>
    /\ calls = << >>
    /\ saved_matrix = NoArray
    /\ ref_file = NoFile
    /\ target_scene \in BatchScenes
    /\ cli_globals = TRUE

\* main() line 272 calling get_ref_color_matrix(), lines 132-179
ProxyGetRefColorMatrix ==
    /\ pc = "proxy_ref"
    /\ ref_kind' = "image"
    /\ UNCHANGED << libs, input_dir, img_format, ref_path, target_image_lst, idx,
                    scene, card_mask, affine, rgb_corr, written, stderr,
                    saved_matrix, ref_file, target_scene, cli_globals >>
    /\ \E sc \in BatchScenes :
          /\ detected' = Append(detected, [kind |-> "ref", path |-> ref_image_path])
          /\ IF ~sc.card
             THEN /\ Raise("CardNotFound")
                  /\ debug' = "print"
                  /\ calls' = Append(calls,
                         Call("detect", ref_image_path, RawDecode(FALSE, TRUE),
                              "print"))
                  /\ UNCHANGED ref_color_matrix
             ELSE /\ debug' = "None"
                  /\ calls' = calls \o
                       << Call("detect", ref_image_path, RawDecode(FALSE, TRUE),
                               "print"),
                          Call("extract", ref_image_path, RawDecode(TRUE, FALSE),
                               debug') >>
                  /\ ref_color_matrix' = sc.m
                  /\ exc' = exc
                  /\ pc' = "proxy_correct"

\* main() line 275 calling proxy_correct(), lines 182-250
ProxyCorrect ==
    /\ pc = "proxy_correct"
    /\ UNCHANGED << libs, input_dir, img_format, ref_path, target_image_lst, idx,
                    ref_color_matrix, ref_kind, written, stderr,
                    saved_matrix, ref_file, target_scene, cli_globals >>
    /\ \E sc \in BatchScenes :
          /\ scene' = sc
          /\ detected' = Append(detected, [kind |-> "proxy", path |-> proxy_image_path])
          /\ IF ~sc.card
             THEN /\ Raise("CardNotFound")
                  /\ debug' = "print"
                  /\ calls' = Append(calls,
                         Call("detect", proxy_image_path, RawDecode(FALSE, TRUE),
                              "print"))
                  /\ UNCHANGED << card_mask, affine, rgb_corr >>
             ELSE /\ card_mask' = [image |-> proxy_image_path, flipped |-> FALSE]
                  /\ debug' = "None"
                  /\ affine' = ProxyAffineCall(proxy_image_path, target_image_path,
                                               sc, target_scene, card_mask',
                                               ref_color_matrix)
                  /\ calls' = calls \o
                       << Call("detect", proxy_image_path, RawDecode(FALSE, TRUE),
                               "print"),
                          Call("extract", card_mask'.image, RawDecode(TRUE, FALSE),
                               debug'),
                          Call("affine", affine'.image, RawDecode(TRUE, FALSE),
                               debug') >>
                  /\ IF ~AffineFits(affine'.source_matrix, affine'.target_matrix)
                     THEN /\ Raise("ShapeMismatch")
                          /\ UNCHANGED rgb_corr
                     ELSE /\ rgb_corr' = [image |-> affine'.image]
                          /\ exc' = exc
                          /\ pc' = "proxy_save"

\* main(), lines 282-288: the returned raster is saved to output_path
ProxySave ==
    /\ pc = "proxy_save"
    /\ written' = Append(written, [name |-> output_path, image |-> rgb_corr.image])
    /\ calls' = Append(calls, Call("write", rgb_corr.image, NoDecode, debug))
    /\ pc' = "done"
    /\ UNCHANGED << libs, input_dir, img_format, ref_path, target_image_lst, idx,
                    ref_color_matrix, ref_kind, scene, card_mask, affine,
                    rgb_corr, stderr, exc, debug, detected,
                    saved_matrix, ref_file, target_scene, cli_globals >>

NextProxy ==
    \/ ProxyGetRefColorMatrix
    \/ ProxyCorrect
    \/ ProxySave

SpecProxy == InitProxy /\ [][NextProxy]_vars

\* C14: in proxy_correct, card detection and patch extraction run on the
\* proxy image only, never on the target image; the source matrix of the
\* affine correction is the proxy's matrix; the raster corrected and
\* returned is the target image's extraction-profile raster; the proxy's
\* raster is never written as the output.
C14_ProxyMatrixTargetRaster ==
    /\ \A i \in DOMAIN calls :
          /\ calls[i].op \in {"detect", "extract", "extract_ud"}
                => /\ calls[i].path # target_image_path
                   /\ calls[i].path \in {ref_image_path, proxy_image_path}
          /\ calls[i].op = "affine"
                => /\ calls[i].path = target_image_path
                   /\ IsExtractionProfile(calls[i].raster)
    /\ \A i \in DOMAIN detected :
          detected[i].kind = "proxy" => detected[i].path = proxy_image_path
    /\ card_mask # NoMask => card_mask.image = proxy_image_path
    /\ affine.called =>
          /\ affine.source_matrix = GetColorMatrix(scene, card_mask)
          /\ affine.target_matrix = ref_color_matrix
          /\ affine.image = target_image_path
    /\ rgb_corr # NoRaster => rgb_corr.image = target_image_path
    /\ \A w \in 1..Len(written) :
          /\ written[w].image = target_image_path
          /\ written[w].image # proxy_image_path

\* a finished run whose target image shows a card of other colours than the
\* proxy's: the matrix used is the proxy's, the raster written the target's
C14_Witness ==
    /\ pc = "done"
    /\ Len(written) = 1
    /\ affine.called
    /\ target_scene.card
    /\ target_scene.m # scene.m
    /\ affine.source_matrix = scene.m

(***************************************************************************)
(* correct_from_other.py.  The packages are imported at module level.  The *)
(* script's entry point calls main(), and main() does not call cli(): the  *)
(* six names cli() would assign are bound only when something else binds   *)
(* them in the module's globals.  img_format holds raw_suffix here.        *)
(***************************************************************************)
\* main(), line 225: the comprehension's filter, x.endswith(raw_suffix)
SelectedOther(x, raw_suffix) == EndsWith(x, raw_suffix)

InitOther ==
    /\ libs = TRUE
    /\ input_dir \in {S \in SUBSET FileNames : Cardinality(S) <= MaxFiles}
    /\ img_format \in Formats
    /\ ref_path = R_arw
    /\ pc = "other_main"
    /\ target_image_lst = << >>
    /\ idx = 1
    /\ ref_color_matrix = NoArray
    /\ ref_kind = "none"
    /\ scene = NoCardScene
    /\ card_mask = NoMask
    /\ affine = NoCall
    /\ rgb_corr = NoRaster
    /\ written = << >>
    /\ stderr = << >>
    /\ exc = "none"
    /\ debug = "unset"
    /\ detected = << >>
    /\ calls = << >>
    /\ saved_matrix = NoArray
    /\ ref_file = NoFile
    /\ target_scene = NoCardScene
    /\ cli_globals \in BOOLEAN

\* main(), lines 218-231: the first statement reads review_dir_path; then
\* the matching files are listed and sorted
OtherListTargets ==
    /\ pc = "other_main"
    /\ UNCHANGED << libs, input_dir, img_format, ref_path, idx, ref_color_matrix,
                    ref_kind, scene, card_mask, affine, rgb_corr, written,
                    stderr, debug, detected, calls, saved_matrix, ref_file,
                    target_scene, cli_globals >>
    /\ IF ~cli_globals
       THEN /\ Raise("NameError")
            /\ UNCHANGED target_image_lst
       ELSE /\ target_image_lst' =
                 SortNames({x \in input_dir : SelectedOther(x, img_format)})
            /\ exc' = exc
            /\ pc' = "other_ref"

\* main() line 234 calling get_ref_color_matrix(), lines 123-137: it sets the
\* debug mode and calls detect_color_card(ref_image_path,) with one of the
\* five positional arguments the function requires
OtherGetRefColorMatrix ==
    /\ pc = "other_ref"
    /\ ref_kind' = "image"
    /\ debug' = "print"
    /\ Raise("TypeError")
    /\ UNCHANGED << libs, input_dir, img_format, ref_path, target_image_lst, idx,
                    ref_color_matrix, scene, card_mask, affine, rgb_corr,
                    written, stderr, detected, calls, saved_matrix, ref_file,
                    target_scene, cli_globals >>

NextOther ==
    \/ OtherListTargets
    \/ OtherGetRefColorMatrix

SpecOther == InitOther /\ [][NextOther]_vars

\* C15: run as a script, correct_from_other.main parses its arguments,
\* resolves the reference matrix once and takes every file ending with
\* raw_suffix, in sorted order, through detection, correction and the write
\* of one TIFF; the run ends at the end of the loop, the only error that may
\* end it earlier being a card that is not detected.
C15_ScriptRunReachesEndOfLoop ==
    ( /\ ~cli_globals
      /\ pc \notin {"other_main", "other_ref"} )
        => /\ exc \in {"none", "CardNotFound"}
           /\ exc = "none" =>
                 /\ pc = "done"
                 /\ Len(SelectSeq(detected, IsRefDetection)) = 1
                 /\ Len(written) = Len(target_image_lst)
                 /\ \A i \in 1..Len(written) : written[i].image = target_image_lst[i]

=============================================================================
